---- MODULE Spec2Model ----
(***************************************************************************)
(* FourierNetHead (src/mmdet/models/anchor_heads/fouriernet_head.py):      *)
(* point grid, polar contour sampling, centerness score, target            *)
(* assignment and loss normalizers, polygon decoding and detection, as     *)
(* state machines over small integer inputs.                               *)
(*                                                                         *)
(* Numbers.  Points, boxes and contour coordinates are integers.  A        *)
(* distance sqrt(x^2 + y^2) is carried as its square, with the epsilon     *)
(* 1e-6 of get_polar_coordinates as an infinitesimal part: the value       *)
(* [sq |-> n, eps |-> k] stands for the squared distance n + k * 1e-12.    *)
(* sqrt is monotone, so max, min and comparisons of distances are those    *)
(* of the carried values.                                                  *)
(***************************************************************************)
EXTENDS Integers, Sequences, FiniteSets, TLC

VARIABLES
    head,   \* the FourierNetHead object (its attributes), or NoHead
    call,   \* the call in progress: the function's name and its arguments
    locals, \* the local variables of the call while it runs
    ret,    \* what the call returned (or the exception it raised)
    pc      \* "ready": the call has not run; "done": it has returned;
            \* in between, the statement the call is at ("new" and
            \* "constructed": before and after __init__)
\* Where two calls share the head (SpecShared), call, locals, ret and pc
\* hold one entry per call.

vars == <<head, call, locals, ret, pc>>

(***************************************************************************)
(* Bounds of the model.                                                    *)
(***************************************************************************)
MaxStride == 3      \* strides of the point grid are 1..MaxStride
MaxFeat == 2        \* feature maps have 0..MaxFeat rows and columns
MaxContour == 2     \* contours handed to the sampler have 0..MaxContour points
MaxGts == 2         \* an image has 0..MaxGts ground-truth instances
MaxCoe == 4         \* num_coe and visulize_coe of a Fourier head are 1..MaxCoe
MaxSignal == 3      \* the signals of the centerness score have 1..MaxSignal entries

(***************************************************************************)
(* Values shared by the operations.                                        *)
(***************************************************************************)
NoHead == [none |-> TRUE]
Unset == [unset |-> TRUE]

\* a call returns a value or raises an exception
Ok(v) == [ok |-> TRUE, val |-> v]
Raise(e) == [ok |-> FALSE, error |-> e]
NoRet == Raise("not returned")
NoLocals == [none |-> TRUE]

INF == 100000000

Range(s) == {s[k] : k \in DOMAIN s}

\* A tensor is a sequence whose entries are computed when it is made: s \o <<>>
\* is s, with every entry evaluated once.
Tensor(s) == s \o <<>>

SeqsUpTo(S, n) == UNION {[1..m -> S] : m \in 0..n}

RECURSIVE SumSeq(_)
SumSeq(s) == IF s = <<>> THEN 0 ELSE Head(s) + SumSeq(Tail(s))

RECURSIVE Concat(_)
Concat(ss) == IF ss = <<>> THEN <<>> ELSE Head(ss) \o Concat(Tail(ss))

MinOf(S) == CHOOSE m \in S : \A x \in S : m <= x
MaxOf(S) == CHOOSE m \in S : \A x \in S : x <= m

Abs(x) == IF x < 0 THEN -x ELSE x

(***************************************************************************)
(* FourierNetHead.__init__: the attributes the operations below read.      *)
(* num_points_per_level is not among them: only loss sets it.              *)
(***************************************************************************)
DefaultArgs ==
    [strides |-> <<2, 4>>,
     regress_ranges |-> <<<<-1, 2>>, <<2, INF>>>>,
     mask_nms |-> FALSE,
     bbox_from_mask |-> FALSE,
     center_sample |-> TRUE,
     use_mask_center |-> TRUE,
     radius |-> <<3, 2>>,              \* 1.5, as numerator and denominator
     loss_on_coe |-> FALSE,
     contour_points |-> 4,
     use_fourier |-> FALSE,
     num_coe |-> 2,
     visulize_coe |-> 2,
     normalized_centerness |-> FALSE,
     centerness_factor |-> 500]        \* 0.5, in thousandths

FourierNetHead_init(a) ==
    IF a.contour_points = 0
    THEN Raise("ZeroDivisionError")
    ELSE Ok(
         [use_fourier |-> a.use_fourier,
          contour_points |-> a.contour_points,
          num_coe |-> a.num_coe,
          visulize_coe |-> a.visulize_coe,
          interval |-> 360 \div a.contour_points,
          strides |-> a.strides,
          regress_ranges |-> a.regress_ranges,
          loss_on_coe |-> a.loss_on_coe,
          mask_nms |-> a.mask_nms,
          bbox_from_mask |-> a.bbox_from_mask,
          center_sample |-> a.center_sample,
          use_mask_center |-> a.use_mask_center,
          radius |-> a.radius,
          normalized_centerness |-> a.normalized_centerness,
          centerness_factor |-> a.centerness_factor,
          num_points_per_level |-> Unset])

(***************************************************************************)
(* PointGrid: get_points_single and FourierNetHead.get_points.             *)
(***************************************************************************)
\* torch.arange(0, n * stride, stride): n values for a positive stride
Arange(n, stride) == [k \in 1..n |-> (k - 1) * stride]

\* a faulty variant: the grid flattened column by column
get_points_single_colmajor(featmap_size, stride) ==
    LET h == featmap_size[1]
        w == featmap_size[2]
        x_range == Arange(w, stride)
        y_range == Arange(h, stride)
    IN  Tensor([k \in 1..(h * w) |->
            <<x_range[((k - 1) \div h) + 1] + stride \div 2,
              y_range[((k - 1) % h) + 1] + stride \div 2>>])

\* y, x = meshgrid(y_range, x_range) have shape (h, w); reshape(-1) flattens
\* them row by row; stride // 2 is added to both coordinates
get_points_single(featmap_size, stride) ==
    LET h == featmap_size[1]
        w == featmap_size[2]
        x_range == Arange(w, stride)
        y_range == Arange(h, stride)
    IN  Tensor([k \in 1..(h * w) |->
            <<x_range[((k - 1) % w) + 1] + stride \div 2,
              y_range[((k - 1) \div w) + 1] + stride \div 2>>])

\* one list per feature map, self.strides[i] read for level i
get_points(self, featmap_sizes) ==
    IF Len(featmap_sizes) > Len(self.strides)
    THEN Raise("IndexError")
    ELSE Ok(Tensor([i \in 1..Len(featmap_sizes) |->
                get_points_single(featmap_sizes[i], self.strides[i])]))

FeatSizes == (0..MaxFeat) \X (0..MaxFeat)

InitPoints ==
    /\ \E strides \in SeqsUpTo(1..MaxStride, 2) \ {<<>>} :
          head = FourierNetHead_init([DefaultArgs EXCEPT !.strides = strides]).val
    /\ \E sizes \in SeqsUpTo(FeatSizes, 2) \ {<<>>} :
          call = [fn |-> "get_points", featmap_sizes |-> sizes]
    /\ locals = NoLocals
    /\ ret = NoRet
    /\ pc = "ready"

GetPoints ==
    /\ pc = "ready"
    /\ call.fn = "get_points"
    /\ ret' = get_points(head, call.featmap_sizes)
    /\ pc' = "done"
    /\ UNCHANGED <<head, call, locals>>

SpecPoints == InitPoints /\ [][GetPoints]_vars

(***************************************************************************)
(* PolarSampler: get_polar_coordinates.                                    *)
(***************************************************************************)
\* tan(a degrees) * TanScale for a = 0..45, rounded (TanTable[a + 1])
TanScale == 100000
TanTable ==
    <<0, 1746, 3492, 5241, 6993, 8749, 10510, 12278, 14054, 15838,
      17633, 19438, 21256, 23087, 24933, 26795, 28675, 30573, 32492, 34433,
      36397, 38386, 40403, 42447, 44523, 46631, 48773, 50953, 53171, 55431,
      57735, 60086, 62487, 64941, 67451, 70021, 72654, 75355, 78129, 80978,
      83910, 86929, 90040, 93252, 96569, 100000>>

\* floor of atan(p / q) in degrees for 0 < p < q: a value of 0..44
OctantFloor(p, q) ==
    CHOOSE a \in 0..44 :
        /\ q * TanTable[a + 1] <= p * TanScale
        /\ q * TanTable[a + 2] > p * TanScale

\* torch.atan2(x, y) * 180 / pi, plus 360 when negative, truncated by .int():
\* the angle is measured from the +y axis towards +x.  On the axes and the
\* diagonals the value is a whole number of degrees; elsewhere it is not, and
\* the truncation is taken in the octant of (x, y).
Angle(x, y) ==
    LET ax == Abs(x)
        ay == Abs(y)
        t == IF ax < ay THEN OctantFloor(ax, ay) ELSE 89 - OctantFloor(ay, ax)
    IN  IF x = 0 THEN (IF y >= 0 THEN 0 ELSE 180)
        ELSE IF y = 0 THEN (IF x > 0 THEN 90 ELSE 270)
        ELSE IF ax = ay THEN
            (IF x > 0 THEN (IF y > 0 THEN 45 ELSE 135)
                      ELSE (IF y > 0 THEN 315 ELSE 225))
        ELSE IF x > 0 THEN (IF y > 0 THEN t ELSE 179 - t)
        ELSE (IF y < 0 THEN 180 + t ELSE 359 - t)

\* torch.sqrt(x ** 2 + y ** 2), carried as its square
Dist(x, y) == [sq |-> x * x + y * y, eps |-> 0]
\* the 1e-6 written into an unmatched bin
EPS == [sq |-> 0, eps |-> 1]
\* an entry of torch.zeros
Zero == [sq |-> 0, eps |-> 0]

DLeq(a, b) == a.sq < b.sq \/ (a.sq = b.sq /\ a.eps <= b.eps)
DMax(S) == CHOOSE m \in S : \A d \in S : DLeq(d, m)
DMin(S) == CHOOSE m \in S : \A d \in S : DLeq(m, d)

\* a faulty variant: i-1 looked up before i+1 (and so on)
NeighbourOffsetsMinusFirst == <<0, -1, 1, -2, 2, -3, 3>>

\* the if/elif chain of the first loop: i, i+1, i-1, i+2, i-2, i+3, i-3
NeighbourOffsets == <<0, 1, -1, 2, -2, 3, -3>>

\* range(0, 360, interval), for interval > 0
BinAngles(interval) == [k \in 1..((359 \div interval) + 1) |-> (k - 1) * interval]

\* dist[angle == a].max()
MatchDist(angle, dist, a) ==
    DMax({dist[k] : k \in {j \in DOMAIN angle : angle[j] = a}})

\* the branch of the chain taken for bin angle i, from position j on:
\* the distance, or Unset when no branch is taken
RECURSIVE ChainFrom(_, _, _, _, _)
ChainFrom(angle, dist, i, offs, j) ==
    IF j > Len(offs) THEN Unset
    ELSE IF (i + offs[j]) \in Range(angle)
         THEN MatchDist(angle, dist, i + offs[j])
         ELSE ChainFrom(angle, dist, i, offs, j + 1)

get_polar_coordinates(c_x, c_y, pos_mask_contour, n) ==
    LET ct == pos_mask_contour
        x == Tensor([k \in DOMAIN ct |-> ct[k][1] - c_x])
        y == Tensor([k \in DOMAIN ct |-> ct[k][2] - c_y])
        angle0 == Tensor([k \in DOMAIN ct |-> Angle(x[k], y[k])])
        dist0 == Tensor([k \in DOMAIN ct |-> Dist(x[k], y[k])])
        \* angle, idx = torch.sort(angle); dist = dist[idx]
        idx == SortSeq([k \in DOMAIN ct |-> k],
                       LAMBDA a, b : angle0[a] < angle0[b])
        angle == Tensor([k \in DOMAIN ct |-> angle0[idx[k]]])
        dist == Tensor([k \in DOMAIN ct |-> dist0[idx[k]]])
    IN  IF n = 0 THEN Raise("ZeroDivisionError")
        ELSE IF 360 \div n = 0 THEN Raise("ValueError")   \* range() step 0
        ELSE
        LET interval == 360 \div n
            bins == BinAngles(interval)
            found == Tensor([k \in DOMAIN bins |->
                        ChainFrom(angle, dist, bins[k], NeighbourOffsets, 1)])
            \* the second loop: found bins copied, the others set to 1e-6
            value == Tensor([k \in DOMAIN bins |->
                        IF found[k] = Unset THEN EPS ELSE found[k]])
        IN  \* distances has n entries; bin a is written at a // interval
            IF Len(bins) > n THEN Raise("IndexError")
            ELSE Ok([distances |-> Tensor([b \in 1..n |->
                                      IF b <= Len(bins) THEN value[b] ELSE Zero]),
                     new_coordinate |->
                         [a \in Range(bins) |-> value[(a \div interval) + 1]]])

\* contour points and centres of the sampler's runs: around the centre (0, 0)
\* the points lie at 45, 45, 46, 44, 47, 43, 48 and 42 degrees, on the
\* centre itself, and at 0 degrees
ContourPool ==
    {<<1, 1>>, <<2, 2>>, <<15, 14>>, <<29, 30>>, <<12, 11>>, <<14, 15>>,
     <<9, 8>>, <<10, 11>>, <<0, 0>>, <<0, 3>>}
CentrePool == {<<0, 0>>, <<1, 0>>}
BinCounts == {4, 7, 72, 360}

InitPolar ==
    /\ head = NoHead
    /\ \E c \in CentrePool, ct \in SeqsUpTo(ContourPool, MaxContour), n \in BinCounts :
          call = [fn |-> "get_polar_coordinates",
                  c_x |-> c[1], c_y |-> c[2], pos_mask_contour |-> ct, n |-> n]
    /\ locals = NoLocals
    /\ ret = NoRet
    /\ pc = "ready"

GetPolarCoordinates ==
    /\ pc = "ready"
    /\ call.fn = "get_polar_coordinates"
    /\ ret' = get_polar_coordinates(call.c_x, call.c_y, call.pos_mask_contour, call.n)
    /\ pc' = "done"
    /\ UNCHANGED <<head, call, locals>>

SpecPolar == InitPolar /\ [][GetPolarCoordinates]_vars

(***************************************************************************)
(* CenternessScorer: polar_centerness_target.  The distances are carried   *)
(* as squares, so sqrt(min / max) is carried as its fourth power, the      *)
(* fraction [num, den] = min / max of the carried values.                  *)
(***************************************************************************)
DScale(d, k) == [sq |-> d.sq * k, eps |-> d.eps * k]
One == [sq |-> 1, eps |-> 0]
Frac(n, d) == [num |-> n, den |-> d]
\* an entry of torch.zeros, as a fraction
ZeroFrac == Frac(Zero, One)

\* a faulty variant: the result is not clamped
polar_centerness_target_unclamped(pos_mask_targets, max_centerness) ==
    LET lo == DMin(Range(pos_mask_targets))
        hi == DMax(Range(pos_mask_targets))
        truthy == max_centerness # Unset /\ max_centerness[1] # 0
        p4 == max_centerness[1] * max_centerness[1]
                * max_centerness[1] * max_centerness[1]
        q4 == max_centerness[2] * max_centerness[2]
                * max_centerness[2] * max_centerness[2]
    IN  Frac(IF truthy THEN DScale(lo, q4) ELSE lo,
             IF truthy THEN DScale(hi, p4) ELSE hi)

\* max_centerness is None (Unset) or a number <<p, q>> = p / q; a None or a
\* zero max_centerness is falsy and not divided by; clamp_max(1.0) last
polar_centerness_target(pos_mask_targets, max_centerness) ==
    LET lo == DMin(Range(pos_mask_targets))
        hi == DMax(Range(pos_mask_targets))
        truthy == max_centerness # Unset /\ max_centerness[1] # 0
        p4 == max_centerness[1] * max_centerness[1]
                * max_centerness[1] * max_centerness[1]
        q4 == max_centerness[2] * max_centerness[2]
                * max_centerness[2] * max_centerness[2]
        num == IF truthy THEN DScale(lo, q4) ELSE lo
        den == IF truthy THEN DScale(hi, p4) ELSE hi
    IN  IF den # Zero /\ ~DLeq(num, den) THEN Frac(One, One) ELSE Frac(num, den)

\* The runs of polar_centerness_target: signals of 1..MaxSignal distances
\* out of 0, 1e-6, 1, 2 and 4, and a max_centerness that is None, 0, 1/2, 1
\* or 2.
SignalValues == {Zero, EPS, Dist(1, 0), Dist(2, 0), Dist(4, 0)}

Normalizers == {<<0, 1>>, <<1, 2>>, <<1, 1>>, <<2, 1>>}

InitCenterness ==
    /\ head = NoHead
    /\ \E n \in 1..MaxSignal : \E signal \in [1..n -> SignalValues] :
          \/ call = [fn |-> "polar_centerness_target",
                     pos_mask_targets |-> signal,
                     max_centerness |-> Unset]
          \/ \E c \in Normalizers :
                call = [fn |-> "polar_centerness_target",
                        pos_mask_targets |-> signal,
                        max_centerness |-> c]
    /\ locals = NoLocals
    /\ ret = NoRet
    /\ pc = "ready"

PolarCenternessTarget ==
    /\ pc = "ready"
    /\ call.fn = "polar_centerness_target"
    /\ ret' = Ok(polar_centerness_target(call.pos_mask_targets, call.max_centerness))
    /\ pc' = "done"
    /\ UNCHANGED <<head, call, locals>>

NextCenterness == PolarCenternessTarget

SpecCenterness == InitCenterness /\ [][NextCenterness]_vars

(***************************************************************************)
(* TargetAssigner: get_mask_sample_region and polar_target_single.         *)
(* A box is <<x0, y0, x1, y1>>, a mask centre <<y, x>>, a regression range *)
(* <<min, max>>; matrices are indexed [point][instance].                   *)
(***************************************************************************)
Min4(t) == MinOf({t[1], t[2], t[3], t[4]})
Max4(t) == MaxOf({t[1], t[2], t[3], t[4]})

\* the level whose slice beg:end of the rows holds row p, or 0 when the
\* slices of num_points_per end before p
RECURSIVE LevelOfRow(_, _, _, _)
LevelOfRow(num_points_per, p, level, beg) ==
    IF level > Len(num_points_per) THEN 0
    ELSE IF p <= beg + num_points_per[level] THEN level
    ELSE LevelOfRow(num_points_per, p, level + 1, beg + num_points_per[level])

\* Coordinates are multiplied by the denominator of radius, so that
\* strides[level] * radius is a whole number.
get_mask_sample_region(gt_bb, mask_center, strides, num_points_per, gt_xs, gt_ys, radius) ==
    LET num_points == Len(gt_xs)
        num_gts == Len(mask_center)
        rn == radius[1]
        rd == radius[2]
        center_y(g) == mask_center[g][1]
        center_x(g) == mask_center[g][2]
        \* center_gt of row p and instance g, zero where no level covers p
        center_gt(p, g) ==
            LET level == LevelOfRow(num_points_per, p, 1, 0)
                stride == strides[level] * rn
                xmin == center_x(g) * rd - stride
                ymin == center_y(g) * rd - stride
                xmax == center_x(g) * rd + stride
                ymax == center_y(g) * rd + stride
                bb == gt_bb[g]
            IN  IF level = 0 THEN <<0, 0, 0, 0>>
                ELSE <<IF xmin > bb[1] * rd THEN xmin ELSE bb[1] * rd,
                       IF ymin > bb[2] * rd THEN ymin ELSE bb[2] * rd,
                       IF xmax > bb[3] * rd THEN bb[3] * rd ELSE xmax,
                       IF ymax > bb[4] * rd THEN bb[4] * rd ELSE ymax>>
        center_bbox(p, g) ==
            LET c == center_gt(p, g)
            IN  <<gt_xs[p] * rd - c[1], gt_ys[p] * rd - c[2],
                  c[3] - gt_xs[p] * rd, c[4] - gt_ys[p] * rd>>
    IN  \* "no gt": the x of the first instance's centre, summed over the rows
        IF num_points * center_x(1) = 0
        THEN Ok(Tensor([p \in 1..num_points |->
                           Tensor([g \in 1..num_gts |-> FALSE])]))
        ELSE IF Len(num_points_per) > Len(strides) THEN Raise("IndexError")
        ELSE Ok(Tensor([p \in 1..num_points |->
                           Tensor([g \in 1..num_gts |-> Min4(center_bbox(p, g)) > 0])]))

\* (x1 - x0 + 1) * (y1 - y0 + 1)
BoxArea(b) == (b[3] - b[1] + 1) * (b[4] - b[2] + 1)

\* left, top, right, bottom of point pt to box b
BoxDistances(pt, b) == <<pt[1] - b[1], pt[2] - b[2], b[3] - pt[1], b[4] - pt[2]>>

\* a faulty variant: the regression range is not looked at
InsideRegressRangeAlways(max_regress_distance, rr) == TRUE

\* (max_regress_distance >= regress_ranges[..., 0])
\*     & (max_regress_distance <= regress_ranges[..., 1])
InsideRegressRange(max_regress_distance, rr) ==
    max_regress_distance >= rr[1] /\ max_regress_distance <= rr[2]

\* areas.min(dim=1): the index of the first minimal value of the row
ArgMin(row) ==
    CHOOSE g \in DOMAIN row :
        /\ \A k \in DOMAIN row : row[g] <= row[k]
        /\ \A k \in DOMAIN row : row[k] = row[g] => g <= k

\* a faulty variant: a point one pixel from the box's edge counts as outside
InsideFullBoxByMargin(bbox_target) == Min4(bbox_target) > 1

\* bbox_targets.min(-1)[0] > 0
InsideFullBox(bbox_target) == Min4(bbox_target) > 0

\* inside_gt_bbox_mask, [point][instance]
InsideGtBboxMask(self, gt_bboxes, mask_centers, points) ==
    LET num_points == Len(points)
        num_gts == Len(gt_bboxes)
    IN  IF self.center_sample
        THEN IF self.use_mask_center
             THEN IF self.num_points_per_level = Unset
                  THEN Raise("AttributeError")
                  ELSE get_mask_sample_region(
                           gt_bboxes, mask_centers, self.strides,
                           self.num_points_per_level,
                           Tensor([p \in 1..num_points |-> points[p][1]]),
                           Tensor([p \in 1..num_points |-> points[p][2]]),
                           self.radius)
             ELSE Raise("AttributeError")     \* self.get_sample_region is not defined
        ELSE Ok(Tensor([p \in 1..num_points |->
                           Tensor([g \in 1..num_gts |->
                               InsideFullBox(BoxDistances(points[p], gt_bboxes[g]))])]))

polar_target_single(self, gt_bboxes, gt_masks, gt_labels, mask_centers, gt_max_centerness, points, regress_ranges) ==
    LET num_points == Len(points)
        num_gts == Len(gt_labels)
        bbox_targets0 ==
            Tensor([p \in 1..num_points |->
                Tensor([g \in 1..num_gts |->
                    BoxDistances(points[p], gt_bboxes[g])])])
        \* lines 593-625, given the inclusion mask
        Assign(inside_gt_bbox_mask) ==
            LET \* areas with INF written where either test fails
                areas ==
                    Tensor([p \in 1..num_points |->
                        Tensor([g \in 1..num_gts |->
                            IF /\ inside_gt_bbox_mask[p][g]
                               /\ InsideRegressRange(Max4(bbox_targets0[p][g]),
                                                     regress_ranges[p])
                            THEN BoxArea(gt_bboxes[g])
                            ELSE INF])])
                min_area_inds == Tensor([p \in 1..num_points |-> ArgMin(areas[p])])
                min_area == Tensor([p \in 1..num_points |-> areas[p][min_area_inds[p]]])
                labels ==
                    Tensor([p \in 1..num_points |->
                        IF min_area[p] = INF THEN 0 ELSE gt_labels[min_area_inds[p]]])
                bbox_targets ==
                    Tensor([p \in 1..num_points |-> bbox_targets0[p][min_area_inds[p]]])
                \* the targets, given the signals sampled in the loop over the
                \* positive points
                Targets(sampled) ==
                    LET failed == {p \in 1..num_points :
                                      sampled[p] # Unset /\ ~sampled[p].ok}
                        mask_targets ==
                            Tensor([p \in 1..num_points |->
                                IF labels[p] = 0
                                THEN Tensor([b \in 1..self.contour_points |-> Zero])
                                ELSE sampled[p].val.distances])
                        centerness_target ==
                            Tensor([p \in 1..num_points |->
                                IF labels[p] = 0 THEN ZeroFrac
                                ELSE polar_centerness_target(
                                         sampled[p].val.distances,
                                         IF self.normalized_centerness
                                         THEN gt_max_centerness[min_area_inds[p]]
                                         ELSE Unset)])
                    IN  IF failed # {} THEN sampled[MinOf(failed)]
                        ELSE Ok(<<labels, bbox_targets, mask_targets, centerness_target>>)
            IN  Targets(Tensor([p \in 1..num_points |->
                    IF labels[p] = 0 THEN Unset
                    ELSE get_polar_coordinates(points[p][1], points[p][2],
                                               gt_masks[min_area_inds[p]],
                                               self.contour_points)]))
        Masked(inside_gt_bbox_mask) ==
            IF ~inside_gt_bbox_mask.ok THEN inside_gt_bbox_mask
            ELSE Assign(inside_gt_bbox_mask.val)
    IN  IF num_gts = 0
        THEN Ok(<<Tensor([p \in 1..num_points |-> 0]),
                  Tensor([p \in 1..num_points |-> <<0, 0, 0, 0>>])>>)
        ELSE Masked(InsideGtBboxMask(self, gt_bboxes, mask_centers, points))

(***************************************************************************)
(* FourierNetHead.polar_target and the target side of loss.                *)
(***************************************************************************)
\* tensor.split(sizes, 0): consecutive pieces of the given sizes
RECURSIVE Split(_, _)
Split(t, sizes) ==
    IF sizes = <<>> THEN <<>>
    ELSE <<SubSeq(t, 1, Head(sizes))>>
            \o Split(SubSeq(t, Head(sizes) + 1, Len(t)), Tail(sizes))

\* the asserts and the per-image calls of polar_target_single (multi_apply):
\* the list of the calls' results, or the first exception raised
PolarTargetApply(self, points, labels_list, bbox_list, mask_list, centers_list, centerness_list) ==
    LET num_levels == Len(points)
        concat_points == Concat(points)
        concat_regress_ranges ==
            Concat([i \in 1..num_levels |->
                      Tensor([k \in 1..Len(points[i]) |-> self.regress_ranges[i]])])
        num_imgs == MinOf({Len(bbox_list), Len(mask_list), Len(labels_list),
                           Len(centers_list), Len(centerness_list)})
        Applied(results) ==
            LET failed == {img \in 1..num_imgs : ~results[img].ok}
            IN  IF failed # {} THEN results[MinOf(failed)]
                ELSE Ok(Tensor([img \in 1..num_imgs |-> results[img].val]))
    IN  IF Len(points) # Len(self.regress_ranges) THEN Raise("AssertionError")
        ELSE Applied(Tensor([img \in 1..num_imgs |->
                 polar_target_single(self, bbox_list[img], mask_list[img],
                                     labels_list[img], centers_list[img],
                                     centerness_list[img], concat_points,
                                     concat_regress_ranges)]))

\* zip(*results) has as many lists as the shortest of the returned tuples has
\* items (none for no image); they are unpacked into four names, then split
\* per level and concatenated per level over the images
PolarTargetCollect(points, results) ==
    LET num_levels == Len(points)
        num_points == [i \in 1..num_levels |-> Len(points[i])]
        width == IF results = <<>> THEN 0
                 ELSE MinOf({Len(results[img]) : img \in DOMAIN results})
        PerLevel(item) ==
            Tensor([i \in 1..num_levels |->
                Concat([img \in DOMAIN results |->
                          Split(results[img][item], num_points)[i]])])
    IN  IF width # 4 THEN Raise("ValueError")
        ELSE Ok(<<PerLevel(1), PerLevel(2), PerLevel(3), PerLevel(4)>>)

\* The runs of loss: a head of two levels on an image of 8 x 8 pixels, feature
\* maps of 4 x 4 and 2 x 2 cells.
AssignArgs ==
    [DefaultArgs EXCEPT !.strides = <<2, 4>>,
                        !.regress_ranges = <<<<-1, 5>>, <<5, INF>>>>,
                        !.contour_points = 4]

AssignFeatmapSizes == <<<<4, 4>>, <<2, 2>>>>

\* the corners and the edge points of box b that share a coordinate with a
\* grid point: the contour of an instance filling its box
BoxContour(b) ==
    <<<<b[1], b[2]>>, <<b[3], b[2]>>, <<b[3], b[4]>>, <<b[1], b[4]>>,
      <<b[1] + 1, b[2]>>, <<b[3], b[2] + 1>>, <<b[3] - 1, b[4]>>, <<b[1], b[4] - 1>>,
      <<b[1] + 3, b[2]>>, <<b[3], b[2] + 3>>, <<b[3] - 3, b[4]>>, <<b[1], b[4] - 3>>>>

Instance(b, label, center, maxc) ==
    [bbox |-> b, label |-> label, center |-> center,
     mask |-> BoxContour(b), max_centerness |-> maxc]

\* ground-truth instances: boxes of areas 25, 81, 25 and 15, one whose mask
\* centre has x = 0, and one of area 10000 * 10000 = INF
InstancePool ==
    {Instance(<<0, 0, 4, 4>>, 1, <<2, 2>>, <<1, 1>>),
     Instance(<<0, 0, 8, 8>>, 2, <<7, 7>>, <<1, 2>>),
     Instance(<<2, 2, 6, 6>>, 2, <<4, 4>>, <<0, 1>>),
     Instance(<<0, 0, 4, 2>>, 3, <<1, 2>>, <<1, 1>>),
     Instance(<<0, 0, 4, 4>>, 3, <<2, 0>>, <<1, 1>>),
     Instance(<<0, 0, 9999, 9999>>, 1, <<2, 2>>, <<1, 1>>)}

\* an instance whose contour has a vertex at (5, 5), the only grid point
\* strictly inside its box
ThroughPoints ==
    [bbox |-> <<4, 4, 6, 6>>, label |-> 2, center |-> <<5, 5>>,
     mask |-> <<<<4, 4>>, <<6, 4>>, <<6, 6>>, <<5, 5>>, <<4, 6>>>>,
     max_centerness |-> <<1, 1>>]

\* the second image of a batch, when there is one
SecondImagePool ==
    {<<>>, <<Instance(<<2, 2, 6, 6>>, 1, <<4, 4>>, <<1, 1>>)>>, <<ThroughPoints>>}

\* center_sample, use_mask_center, normalized_centerness, use_fourier and
\* loss_on_coe of the heads
AssignModes ==
    {<<FALSE, TRUE, FALSE, FALSE, FALSE>>, <<FALSE, TRUE, TRUE, FALSE, FALSE>>,
     <<TRUE, TRUE, FALSE, FALSE, FALSE>>, <<TRUE, FALSE, FALSE, FALSE, FALSE>>,
     <<FALSE, TRUE, FALSE, TRUE, FALSE>>, <<FALSE, TRUE, FALSE, TRUE, TRUE>>}

\* the numbers of levels of the prediction lists handed to loss, in the order
\* cls_scores, bbox_preds, centernesses, mask_preds; the feature-map sizes are
\* those of cls_scores
LossLevelCounts == {<<2, 2, 2, 2>>, <<2, 3, 2, 2>>, <<2, 2, 1, 2>>, <<2, 2, 2, 3>>}

InitAssign ==
    /\ \E m \in AssignModes :
          head = FourierNetHead_init(
                     [AssignArgs EXCEPT !.center_sample = m[1],
                                        !.use_mask_center = m[2],
                                        !.normalized_centerness = m[3],
                                        !.use_fourier = m[4],
                                        !.loss_on_coe = m[5]]).val
    /\ \E first \in SeqsUpTo(InstancePool, MaxGts),
          rest \in {<<>>} \cup {<<g>> : g \in SecondImagePool} :
          LET gts == <<first>> \o rest
              Field(f(_)) == [img \in DOMAIN gts |->
                                [k \in DOMAIN gts[img] |-> f(gts[img][k])]]
          IN  \E counts \in LossLevelCounts :
              call = [fn |-> "loss",
                      num_levels |-> [cls_scores |-> counts[1],
                                      bbox_preds |-> counts[2],
                                      centernesses |-> counts[3],
                                      mask_preds |-> counts[4]],
                      featmap_sizes |-> AssignFeatmapSizes,
                      gt_bboxes |-> Field(LAMBDA g : g.bbox),
                      gt_labels |-> Field(LAMBDA g : g.label),
                      gt_masks |-> Field(LAMBDA g : g.mask),
                      gt_centers |-> Field(LAMBDA g : g.center),
                      gt_max_centerness |-> Field(LAMBDA g : g.max_centerness)]
    /\ locals = NoLocals
    /\ ret = NoRet
    /\ pc = "ready"

\* loss, lines 345-349: the four prediction lists must have one length; then
\* the points of every level, whose counts are written on the head
LossGetPoints ==
    /\ pc = "ready"
    /\ call.fn = "loss"
    /\ LET all_level_points == get_points(head, call.featmap_sizes)
           n == call.num_levels
       IN  IF ~(/\ n.cls_scores = n.bbox_preds
                /\ n.bbox_preds = n.centernesses
                /\ n.centernesses = n.mask_preds)
           THEN /\ ret' = Raise("AssertionError")
                /\ pc' = "done"
                /\ UNCHANGED <<head, locals>>
           ELSE IF ~all_level_points.ok
           THEN /\ ret' = all_level_points
                /\ pc' = "done"
                /\ UNCHANGED <<head, locals>>
           ELSE /\ head' = [head EXCEPT !.num_points_per_level =
                               [i \in DOMAIN all_level_points.val |->
                                   Len(all_level_points.val[i])]]
                /\ locals' = [all_level_points |-> all_level_points.val]
                /\ pc' = "polar_target"
                /\ UNCHANGED ret
    /\ UNCHANGED call

\* the inside_gt_bbox_mask of polar_target_single for every image, once every
\* call has returned; an image without instances has none
InclusionMasks(self, points, bbox_list, centers_list) ==
    Tensor([img \in DOMAIN bbox_list |->
        IF bbox_list[img] = <<>> THEN <<>>
        ELSE InsideGtBboxMask(self, bbox_list[img], centers_list[img],
                              Concat(points)).val])

\* polar_target, lines 485-504: polar_target_single on every image; the
\* inclusion masks of the calls are kept next to their results
LossPolarTargetApply ==
    /\ pc = "polar_target"
    /\ \E r \in {PolarTargetApply(head, locals.all_level_points, call.gt_labels,
                                  call.gt_bboxes, call.gt_masks, call.gt_centers,
                                  call.gt_max_centerness)} :
           IF ~r.ok
           THEN /\ ret' = r
                /\ pc' = "done"
                /\ UNCHANGED locals
           ELSE /\ \E masks \in {InclusionMasks(head, locals.all_level_points,
                                                 call.gt_bboxes, call.gt_centers)} :
                      locals' = [all_level_points |-> locals.all_level_points,
                                 inside_gt_bbox_mask |-> masks,
                                 results |-> r.val]
                /\ pc' = "polar_target_collect"
                /\ UNCHANGED ret
    /\ UNCHANGED <<head, call>>

\* polar_target, lines 496 and 506-539: the results unpacked, split and
\* concatenated per level
LossPolarTargetCollect ==
    /\ pc = "polar_target_collect"
    /\ \E r \in {PolarTargetCollect(locals.all_level_points, locals.results)} :
           IF ~r.ok
           THEN /\ ret' = r
                /\ pc' = "done"
                /\ UNCHANGED locals
           ELSE /\ locals' = [all_level_points |-> locals.all_level_points,
                              inside_gt_bbox_mask |-> locals.inside_gt_bbox_mask,
                              results |-> locals.results,
                              labels |-> r.val[1],
                              bbox_targets |-> r.val[2],
                              mask_targets |-> r.val[3],
                              centerness_targets |-> r.val[4]]
                /\ pc' = "flatten"
                /\ UNCHANGED ret
    /\ UNCHANGED <<head, call>>

\* a faulty variant: the spectrum is not truncated
RfftUntruncated(signal, kept) ==
    Tensor([k \in 1..Len(signal) |-> [bin |-> k - 1, of |-> signal]])

\* torch.rfft(signal, 1, True, False)[..., :kept, :]: the first kept bins of
\* the spectrum of the signal, which has as many bins as the signal has
\* entries; a bin is carried as its index and the signal, its value is not
\* computed
Rfft(signal, kept) ==
    Tensor([k \in 1..(IF kept < Len(signal) THEN kept ELSE Len(signal)) |->
               [bin |-> k - 1, of |-> signal]])

\* the indices of the non-zero entries of t from index k on, in order
RECURSIVE NonZero(_, _)
NonZero(t, k) ==
    IF k > Len(t) THEN <<>>
    ELSE (IF t[k] # 0 THEN <<k>> ELSE <<>>) \o NonZero(t, k + 1)

\* loss, lines 355 and 405-464: the targets flattened over the levels, the
\* positive points selected, the four losses.  A loss function is carried as
\* the record of the targets, weights and normalizer it is called with, the
\* normalizer pos_centerness_targets.sum() as the summands; the sum of the
\* predictions of no point is 0.
LossFlatten ==
    /\ pc = "flatten"
    /\ LET num_imgs == Len(call.gt_labels)     \* cls_scores[0].size(0)
           flatten_labels == Concat(locals.labels)
           flatten_bbox_targets == Concat(locals.bbox_targets)
           flatten_mask_targets == Concat(locals.mask_targets)
           flatten_centerness_targets == Concat(locals.centerness_targets)
           pos_inds == NonZero(flatten_labels, 1)
           num_pos == Len(pos_inds)
           Pos(t) == Tensor([k \in DOMAIN pos_inds |-> t[pos_inds[k]]])
           pos_centerness_targets == Pos(flatten_centerness_targets)
           pos_mask_targets ==
               IF head.loss_on_coe
               THEN Tensor([k \in DOMAIN pos_inds |->
                       Rfft(flatten_mask_targets[pos_inds[k]], head.num_coe)])
               ELSE Pos(flatten_mask_targets)
       IN  ret' = Ok([flatten_labels |-> flatten_labels,
                      flatten_bbox_targets |-> flatten_bbox_targets,
                      flatten_mask_targets |-> flatten_mask_targets,
                      flatten_centerness_targets |-> flatten_centerness_targets,
                      num_pos |-> num_pos,
                      avg_factor |-> num_pos + num_imgs,
                      loss_cls |-> [target |-> flatten_labels,
                                    avg_factor |-> num_pos + num_imgs],
                      loss_bbox |->
                          IF num_pos > 0
                          THEN [target |-> Pos(flatten_bbox_targets),
                                weight |-> pos_centerness_targets,
                                avg_factor |-> [sum |-> pos_centerness_targets]]
                          ELSE 0,
                      loss_mask |->
                          IF num_pos > 0
                          THEN IF head.loss_on_coe
                               THEN [target |-> pos_mask_targets]
                               ELSE [target |-> pos_mask_targets,
                                     weight |-> pos_centerness_targets,
                                     avg_factor |-> [sum |-> pos_centerness_targets]]
                          ELSE 0,
                      loss_centerness |->
                          IF num_pos > 0 THEN [target |-> pos_centerness_targets]
                          ELSE 0])
    /\ pc' = "done"
    /\ UNCHANGED <<head, call, locals>>

NextAssign ==
    \/ LossGetPoints
    \/ LossPolarTargetApply
    \/ LossPolarTargetCollect
    \/ LossFlatten

SpecAssign == InitAssign /\ [][NextAssign]_vars

(***************************************************************************)
(* Two calls on one head.  Call 1 is a call of loss; call 2 is a call of   *)
(* loss or a direct call of polar_target, on feature maps of another size. *)
(* The steps of the two calls interleave; head is shared, and call,        *)
(* locals, ret and pc hold one entry per call.                             *)
(***************************************************************************)
\* polar_target, lines 484-539
polar_target(self, points, labels_list, bbox_list, mask_list, centers_list, centerness_list) ==
    LET Collect(r) == IF ~r.ok THEN r ELSE PolarTargetCollect(points, r.val)
    IN  Collect(PolarTargetApply(self, points, labels_list, bbox_list, mask_list,
                                 centers_list, centerness_list))

\* the feature-map sizes of call 1 and of call 2
SharedFeatmapSizes == <<AssignFeatmapSizes, <<<<2, 2>>, <<1, 1>>>>>>

InitShared ==
    /\ \E cs \in BOOLEAN :
          head = FourierNetHead_init([AssignArgs EXCEPT !.center_sample = cs]).val
    /\ \E g1 \in InstancePool, g2 \in InstancePool, fn2 \in {"loss", "polar_target"} :
          LET Call(fn, g, sizes) ==
                  [fn |-> fn,
                   featmap_sizes |-> sizes,
                   points |-> get_points(head, sizes).val,
                   gt_bboxes |-> <<<<g.bbox>>>>,
                   gt_labels |-> <<<<g.label>>>>,
                   gt_masks |-> <<<<g.mask>>>>,
                   gt_centers |-> <<<<g.center>>>>,
                   gt_max_centerness |-> <<<<g.max_centerness>>>>]
          IN  call = <<Call("loss", g1, SharedFeatmapSizes[1]),
                       Call(fn2, g2, SharedFeatmapSizes[2])>>
    /\ locals = <<NoLocals, NoLocals>>
    /\ ret = <<NoRet, NoRet>>
    /\ pc = <<"ready", "ready">>

\* loss, lines 346-349, of call t
SharedLossGetPoints(t) ==
    /\ pc[t] = "ready"
    /\ call[t].fn = "loss"
    /\ \E all_level_points \in {get_points(head, call[t].featmap_sizes).val} :
          /\ head' = [head EXCEPT !.num_points_per_level =
                         [i \in DOMAIN all_level_points |-> Len(all_level_points[i])]]
          /\ locals' = [locals EXCEPT ![t] = [all_level_points |-> all_level_points]]
    /\ pc' = [pc EXCEPT ![t] = "polar_target"]
    /\ UNCHANGED <<call, ret>>

\* polar_target of call t: from loss (lines 351-353) or called directly
SharedPolarTarget(t) ==
    /\ \/ pc[t] = "polar_target"
       \/ pc[t] = "ready" /\ call[t].fn = "polar_target"
    /\ \E points \in {IF call[t].fn = "loss" THEN locals[t].all_level_points
                       ELSE call[t].points} :
          \E r \in {polar_target(head, points, call[t].gt_labels, call[t].gt_bboxes,
                                 call[t].gt_masks, call[t].gt_centers,
                                 call[t].gt_max_centerness)} :
             ret' = [ret EXCEPT ![t] = r]
    /\ pc' = [pc EXCEPT ![t] = "done"]
    /\ UNCHANGED <<head, call, locals>>

NextShared ==
    \E t \in {1, 2} :
        \/ SharedLossGetPoints(t)
        \/ SharedPolarTarget(t)

SpecShared == InitShared /\ [][NextShared]_vars

(***************************************************************************)
(* Decoder: FourierNetHead.distance2mask, on a head constructed by         *)
(* __init__.  Sines and cosines are carried in thousandths (the real       *)
(* values rounded to three decimals), and so are the coordinates of the    *)
(* returned vertices: a vertex coordinate v stands for v / TrigScale.      *)
(***************************************************************************)
\* an argument left at None, among tuples
None == <<>>

TrigScale == 1000

\* 1000 * sin of 0, 1, ..., 90 degrees
SinTable ==
    <<0, 17, 35, 52, 70, 87, 105, 122, 139, 156, 174, 191, 208,
      225, 242, 259, 276, 292, 309, 326, 342, 358, 375, 391, 407, 423,
      438, 454, 469, 485, 500, 515, 530, 545, 559, 574, 588, 602, 616,
      629, 643, 656, 669, 682, 695, 707, 719, 731, 743, 755, 766, 777,
      788, 799, 809, 819, 829, 839, 848, 857, 866, 875, 883, 891, 899,
      906, 914, 921, 927, 934, 940, 946, 951, 956, 961, 966, 970, 974,
      978, 982, 985, 988, 990, 993, 995, 996, 998, 999, 999, 1000, 1000>>

\* torch.sin and torch.cos of a whole number of degrees
Sin(a) ==
    LET r == a % 360
    IN  IF r <= 90 THEN SinTable[r + 1]
        ELSE IF r <= 180 THEN SinTable[180 - r + 1]
        ELSE IF r <= 270 THEN -SinTable[r - 180 + 1]
        ELSE -SinTable[360 - r + 1]

Cos(a) == Sin(a + 90)

\* torch.range(0, 359, interval), in degrees, for interval > 0
DecodeAngles(interval) ==
    Tensor([k \in 1..((359 \div interval) + 1) |-> (k - 1) * interval])

\* a faulty variant: the cosine paired with x
VertexXWithCos(d, a, c) == d * Cos(a) + c * TrigScale

\* x = distances * sin + c_x
VertexX(d, a, c) == d * Sin(a) + c * TrigScale

\* y = distances * cos + c_y
VertexY(d, a, c) == d * Cos(a) + c * TrigScale

\* a faulty variant: only the lower bound applied
ClampMinOnly(v, lo, hi) == IF v < lo THEN lo ELSE v

\* Tensor.clamp(min=lo, max=hi)
Clamp(v, lo, hi) == IF v < lo THEN (IF lo > hi THEN hi ELSE lo)
                    ELSE IF v > hi THEN hi ELSE v

\* torch.max(torch.min(v, hi), lo)
ClampToBox(v, lo, hi) ==
    LET m == IF v < hi THEN v ELSE hi
    IN  IF m > lo THEN m ELSE lo

\* the columns of the product of a row of m entries and a row of a entries,
\* 0 when the two do not broadcast
BroadcastLen(m, a) ==
    IF m = a THEN m ELSE IF m = 1 THEN a ELSE IF a = 1 THEN m ELSE 0

\* a faulty variant: contour_points - num_coe zeros at inference too
FourierSpectrumPadByNumCoe(self, distances, train) ==
    LET pad == self.contour_points - self.num_coe
        Kept(d) == IF train THEN d
                   ELSE SubSeq(d, 1, IF self.visulize_coe < Len(d)
                                     THEN self.visulize_coe ELSE Len(d))
    IN  IF pad < 0 THEN Raise("RuntimeError")
        ELSE Ok(Tensor([p \in DOMAIN distances |->
                    Kept(distances[p]) \o [k \in 1..pad |-> <<0, 0>>]]))

\* The sequence of complex bins handed to torch.irfft for every point: the
\* predicted coefficients (at inference the first visulize_coe of them)
\* followed by torch.zeros; a negative number of zeros is a RuntimeError.
\* distances holds num_coe pairs <<re, im>> per point.
FourierSpectrum(self, distances, train) ==
    LET pad == IF train THEN self.contour_points - self.num_coe
               ELSE self.contour_points - self.visulize_coe
        Kept(d) == IF train THEN d
                   ELSE SubSeq(d, 1, IF self.visulize_coe < Len(d)
                                     THEN self.visulize_coe ELSE Len(d))
    IN  IF pad < 0 THEN Raise("RuntimeError")
        ELSE Ok(Tensor([p \in DOMAIN distances |->
                    Kept(distances[p]) \o [k \in 1..pad |-> <<0, 0>>]]))

\* decoded stands for irfft(...).float().exp() of the Fourier branch, one
\* positive number per bin of the spectrum; its values are not computed
\* here.  max_shape is <<H, W>> or None, bbox a list of boxes or None.
distance2mask(self, points, distances, max_shape, train, bbox, decoded) ==
    LET num_points == Len(points)
        Polygon(dist) ==
            LET angles == DecodeAngles(self.interval)
                m == IF num_points = 0 THEN Len(angles) ELSE Len(dist[1])
                cols == BroadcastLen(m, Len(angles))
                D(p, k) == dist[p][IF m = 1 THEN 1 ELSE k]
                A(k) == angles[IF Len(angles) = 1 THEN 1 ELSE k]
                InImage(v, size) ==
                    IF max_shape = None THEN v
                    ELSE Clamp(v, 0, (size - 1) * TrigScale)
                InBox(v, p, lo, hi) ==
                    IF bbox = None THEN v
                    ELSE ClampToBox(v, bbox[p][lo] * TrigScale, bbox[p][hi] * TrigScale)
                x == Tensor([p \in 1..num_points |-> Tensor([k \in 1..cols |->
                        InBox(InImage(VertexX(D(p, k), A(k), points[p][1]),
                                      IF max_shape = None THEN 0 ELSE max_shape[2]),
                              p, 1, 3)])])
                y == Tensor([p \in 1..num_points |-> Tensor([k \in 1..cols |->
                        InBox(InImage(VertexY(D(p, k), A(k), points[p][2]),
                                      IF max_shape = None THEN 0 ELSE max_shape[1]),
                              p, 2, 4)])])
            IN  IF cols = 0 THEN Raise("RuntimeError")
                ELSE Ok([res |-> Tensor([p \in 1..num_points |-> <<x[p], y[p]>>]),
                         distances |-> dist])
    IN  IF self.use_fourier /\ ~FourierSpectrum(self, distances, train).ok
        THEN FourierSpectrum(self, distances, train)
        ELSE IF self.interval = 0 THEN Raise("RuntimeError")   \* torch.range, step 0
        ELSE Polygon(IF self.use_fourier THEN decoded ELSE distances)

\* The heads of the decoder's runs: raw heads of 0, 1, 2, 3, 4 and 7 contour
\* points, and Fourier heads of 2, 4 and 7 contour points with every num_coe
\* and visulize_coe of 1..MaxCoe.
DecodeConfigs ==
    {[DefaultArgs EXCEPT !.contour_points = n] : n \in {0, 1, 2, 3, 4, 7}}
    \cup {[DefaultArgs EXCEPT !.contour_points = n, !.use_fourier = TRUE,
                              !.num_coe = k, !.visulize_coe = v] :
            n \in {2, 4, 7}, k \in 1..MaxCoe, v \in 1..MaxCoe}

DecodePoints == {<<10, 10>>, <<0, 3>>}

\* signals of n entries: constant ones and ramps
Signals(n, base) ==
    {[k \in 1..n |-> d] : d \in base} \cup {[k \in 1..n |-> d + k] : d \in base}

\* predicted raw distances, and values of exp (positive)
RawDistances == {0, 3, 15}
ExpValues == {1, 20}

\* the k-th predicted Fourier coefficient, <<re, im>>
Coefficient(k) == <<k, -k>>

\* image shapes <<H, W>>
ShapePool == {None, <<8, 12>>}

\* predicted boxes: inside the image, beside the image, and with x0 > x1
BoxPool == {None, <<2, 2, 6, 6>>, <<20, 1, 30, 5>>, <<6, 2, 2, 6>>}

InitDecode ==
    /\ head = NoHead
    /\ call = [fn |-> "none"]
    /\ locals = NoLocals
    /\ ret = NoRet
    /\ pc = "new"

\* __init__ with some configuration: no check of the configuration is made
Construct ==
    /\ pc = "new"
    /\ \E a \in DecodeConfigs :
          \E r \in {FourierNetHead_init(a)} :
             IF r.ok
             THEN /\ head' = r.val
                  /\ pc' = "constructed"
                  /\ UNCHANGED ret
             ELSE /\ ret' = r
                  /\ pc' = "failed"
                  /\ UNCHANGED head
    /\ call' = [fn |-> "__init__"]
    /\ UNCHANGED locals

\* one call of distance2mask on the constructed head, for one point
Distance2Mask ==
    /\ pc = "constructed"
    /\ \E pt \in DecodePoints, train \in BOOLEAN, max_shape \in ShapePool,
          box \in BoxPool :
          \E distances \in (IF head.use_fourier
                            THEN {[k \in 1..head.num_coe |-> Coefficient(k)]}
                            ELSE Signals(head.contour_points, RawDistances)) :
          \E spectrum \in {IF head.use_fourier
                           THEN FourierSpectrum(head, <<distances>>, train)
                           ELSE Ok(Unset)} :
          \E decoded \in (IF head.use_fourier /\ spectrum.ok
                          THEN Signals(Len(spectrum.val[1]), ExpValues)
                          ELSE {None}) :
             /\ call' = [fn |-> "distance2mask",
                         points |-> <<pt>>,
                         distances |-> <<distances>>,
                         max_shape |-> max_shape,
                         train |-> train,
                         bbox |-> IF box = None THEN None ELSE <<box>>]
             /\ locals' = [spectrum |-> spectrum]
             /\ ret' = distance2mask(head, <<pt>>, <<distances>>, max_shape, train,
                                     IF box = None THEN None ELSE <<box>>,
                                     IF decoded = None THEN None ELSE <<decoded>>)
    /\ pc' = "done"
    /\ UNCHANGED head

NextDecode ==
    \/ Construct
    \/ Distance2Mask

SpecDecode == InitDecode /\ [][NextDecode]_vars

(***************************************************************************)
(* Detection: FourierNetHead.get_bboxes and get_bboxes_single.  A          *)
(* prediction of one level for one image is carried as its rows after      *)
(* permute(1, 2, 0).reshape: one row per cell of the feature map, in       *)
(* row-major order, together with the size of the map.  Scores are in      *)
(* thousandths, and so are the coordinates of boxes and masks.             *)
(***************************************************************************)
\* 1000 * sigmoid of the logits -2, -1, 0, 1, 2
SigmoidTable == <<119, 269, 500, 731, 881>>

Sigmoid(x) == SigmoidTable[x + 3]

\* the truth value of a flag that is None, <<FALSE>> or <<TRUE>>
Truthy(flag) == flag # None /\ flag[1]

\* mmdet.core.distance2bbox: the box around a point from the distances to
\* its left, top, right and bottom sides, clamped to the image
distance2bbox(points, distance, max_shape) ==
    Tensor([p \in DOMAIN points |->
        <<Clamp((points[p][1] - distance[p][1]) * TrigScale, 0, (max_shape[2] - 1) * TrigScale),
          Clamp((points[p][2] - distance[p][2]) * TrigScale, 0, (max_shape[1] - 1) * TrigScale),
          Clamp((points[p][1] + distance[p][3]) * TrigScale, 0, (max_shape[2] - 1) * TrigScale),
          Clamp((points[p][2] + distance[p][4]) * TrigScale, 0, (max_shape[1] - 1) * TrigScale)>>])

\* torch.stack of the minima and maxima of the x and y of every mask
BoxesOfMasks(masks) ==
    Tensor([p \in DOMAIN masks |->
        <<MinOf(Range(masks[p][1])), MinOf(Range(masks[p][2])),
          MaxOf(Range(masks[p][1])), MaxOf(Range(masks[p][2]))>>])

\* max_scores.topk(k): the indices of the k largest values, largest first
RECURSIVE TopK(_, _, _)
TopK(v, among, k) ==
    IF k = 0 \/ among = {} THEN <<>>
    ELSE LET best == CHOOSE i \in among : \A j \in among :
                        v[j] < v[i] \/ (v[j] = v[i] /\ i <= j)
         IN  <<best>> \o TopK(v, among \ {best}, k - 1)

\* scale_factor is a number, carried as <<s>>, or the four factors
\* <<w, h, w, h>>; the factor that divides the c-th coordinate of a box
BoxFactor(scale_factor, c) ==
    IF Len(scale_factor) = 1 THEN scale_factor[1] ELSE scale_factor[c]

\* lines 722-727: the factor of the x (axis 1) and of the y (axis 2) of a
\* mask.  Slicing the tensor of a number raises IndexError, which is caught:
\* the masks are then divided by the number.
MaskFactor(scale_factor, axis) ==
    IF Len(scale_factor) = 1 THEN scale_factor[1] ELSE scale_factor[axis]

\* the decoded exp values of the Fourier branch at inference: not computed,
\* a fixed positive signal of one value per bin
DetectDecoded(spectrum) ==
    Tensor([p \in DOMAIN spectrum |-> Tensor([k \in DOMAIN spectrum[p] |-> 3])])

\* One level of get_bboxes_single, lines 683-716.  A prediction is a record
\* of the size of its feature map and of its rows; the predictions of one
\* level have as many rows as the level has points.
DetectLevel(self, cls_score, bbox_pred, mask_pred, centerness, points, img_shape, cfg) ==
    LET scores == Tensor([p \in DOMAIN cls_score.rows |->
                     Tensor([c \in DOMAIN cls_score.rows[p] |->
                                Sigmoid(cls_score.rows[p][c])])])
        ctr == Tensor([p \in DOMAIN centerness.rows |-> Sigmoid(centerness.rows[p])])
        nms_pre == IF "nms_pre" \in DOMAIN cfg THEN cfg.nms_pre ELSE -1
        max_scores == [p \in DOMAIN scores |->
                         MaxOf({scores[p][c] * ctr[p] : c \in DOMAIN scores[p]})]
        topk_inds == IF 0 < nms_pre /\ nms_pre < Len(scores)
                     THEN TopK(max_scores, DOMAIN scores, nms_pre)
                     ELSE [p \in DOMAIN scores |-> p]
        Pick(t) == Tensor([k \in DOMAIN topk_inds |-> t[topk_inds[k]]])
        Decode(pts, spectrum) ==
            IF self.use_fourier /\ ~spectrum.ok THEN spectrum
            ELSE distance2mask(self, pts, Pick(mask_pred.rows), img_shape, FALSE, None,
                               IF self.use_fourier THEN DetectDecoded(spectrum.val)
                               ELSE None)
        Level(pts, masks) ==
            IF ~masks.ok THEN masks
            ELSE Ok([bboxes |-> IF ~self.bbox_from_mask
                                THEN distance2bbox(pts, Pick(bbox_pred.rows), img_shape)
                                ELSE BoxesOfMasks(masks.val.res),
                     scores |-> Pick(scores),
                     centerness |-> Pick(ctr),
                     masks |-> masks.val.res])
    IN  IF cls_score.size # bbox_pred.size THEN Raise("AssertionError")
        ELSE Level(Pick(points),
                   Decode(Pick(points),
                          FourierSpectrum(self, Pick(mask_pred.rows), FALSE)))

\* get_bboxes_single, lines 676-760.  _mlvl_bboxes and _mlvl_masks are
\* assigned only under "if rescale:".  The detections are what
\* multiclass_nms_with_mask makes of its arguments, which are returned here
\* in its place, next to the decoded boxes and masks of the levels.
get_bboxes_single(self, cls_scores, bbox_preds, mask_preds, centernesses, mlvl_points, img_shape, scale_factor, cfg, rescale) ==
    LET zipped == MinOf({Len(cls_scores), Len(bbox_preds), Len(mask_preds),
                         Len(centernesses), Len(mlvl_points)})
        Collect(levels) ==
            LET failed == {i \in DOMAIN levels : ~levels[i].ok}
                mlvl_bboxes == Concat([i \in DOMAIN levels |-> levels[i].val.bboxes])
                mlvl_masks == Concat([i \in DOMAIN levels |-> levels[i].val.masks])
                mlvl_scores == Concat([i \in DOMAIN levels |-> levels[i].val.scores])
                mlvl_centerness ==
                    Concat([i \in DOMAIN levels |-> levels[i].val.centerness])
                scaled_bboxes ==
                    Tensor([p \in DOMAIN mlvl_bboxes |-> Tensor([c \in 1..4 |->
                        mlvl_bboxes[p][c] \div BoxFactor(scale_factor, c)])])
                scaled_masks ==
                    Tensor([p \in DOMAIN mlvl_masks |-> Tensor([a \in 1..2 |->
                        Tensor([k \in DOMAIN mlvl_masks[p][a] |->
                            mlvl_masks[p][a][k] \div MaskFactor(scale_factor, a)])])])
            IN  IF failed # {} THEN levels[MinOf(failed)]
                ELSE IF levels = <<>> THEN Raise("RuntimeError")   \* torch.cat([])
                ELSE IF ~Truthy(rescale) THEN Raise("UnboundLocalError")
                ELSE Ok([mlvl_bboxes |-> mlvl_bboxes,
                         mlvl_masks |-> mlvl_masks,
                         multiclass_nms_with_mask |->
                           [bboxes |-> IF self.mask_nms THEN BoxesOfMasks(scaled_masks)
                                       ELSE scaled_bboxes,
                            scores |-> Tensor([p \in DOMAIN mlvl_scores |->
                                          <<0>> \o mlvl_scores[p]]),
                            masks |-> scaled_masks,
                            score_factors |->
                                Tensor([p \in DOMAIN mlvl_centerness |->
                                   mlvl_centerness[p] + self.centerness_factor])]])
    IN  IF ~(Len(cls_scores) = Len(bbox_preds) /\ Len(bbox_preds) = Len(mlvl_points))
        THEN Raise("AssertionError")
        ELSE Collect(Tensor([i \in 1..zipped |->
                 DetectLevel(self, cls_scores[i], bbox_preds[i], mask_preds[i],
                             centernesses[i], mlvl_points[i], img_shape, cfg)]))

\* get_bboxes, lines 636-664.  A prediction list holds, per level, the size
\* of the feature map and the rows of every image of the batch.
get_bboxes(self, cls_scores, bbox_preds, centernesses, mask_preds, img_metas, cfg, rescale) ==
    LET num_levels == Len(cls_scores)
        PerImage(list, img_id) ==
            Tensor([i \in 1..num_levels |->
                      [size |-> list[i].size, rows |-> list[i].imgs[img_id]]])
        Results(mlvl_points) ==
            LET result_list ==
                    Tensor([img_id \in DOMAIN img_metas |->
                        get_bboxes_single(self, PerImage(cls_scores, img_id),
                                          PerImage(bbox_preds, img_id),
                                          PerImage(mask_preds, img_id),
                                          PerImage(centernesses, img_id),
                                          mlvl_points,
                                          img_metas[img_id].img_shape,
                                          img_metas[img_id].scale_factor, cfg,
                                          rescale)])
                failed == {img_id \in DOMAIN result_list : ~result_list[img_id].ok}
            IN  IF failed # {} THEN result_list[MinOf(failed)]
                ELSE Ok(Tensor([img_id \in DOMAIN result_list |->
                                   result_list[img_id].val]))
        Points(mlvl_points) ==
            IF ~mlvl_points.ok THEN mlvl_points
            ELSE IF img_metas = <<>> THEN Ok(<<>>)
            ELSE IF Len(centernesses) < num_levels \/ Len(mask_preds) < num_levels
            THEN Raise("IndexError")
            ELSE Results(mlvl_points.val)
    IN  IF Len(cls_scores) # Len(bbox_preds) THEN Raise("AssertionError")
        ELSE IF num_levels = 0 THEN Raise("IndexError")       \* bbox_preds[0]
        ELSE Points(get_points(self, [i \in 1..num_levels |-> cls_scores[i].size]))

\* The runs of the detection: heads of two levels and four contour points,
\* feature maps of 1 x 2 cells, an image of 8 x 8 pixels.
DetectHeads ==
    {[DefaultArgs EXCEPT !.mask_nms = m, !.bbox_from_mask = b, !.use_fourier = f] :
        m \in BOOLEAN, b \in BOOLEAN, f \in BOOLEAN}

DetectSize == <<1, 2>>

\* the rows of level i of the four predictions, for i in 1..3
ClsRows(i) == <<<<i - 1>>, <<i - 3>>>>
CtrRows(i) == <<2 - i, i - 1>>
BboxRows(i) == <<<<i, 1, 2, i>>, <<1, i, i, 2>>>>
MaskRows(self, i) ==
    IF self.use_fourier
    THEN <<<<Coefficient(i), Coefficient(1)>>, <<Coefficient(2), Coefficient(i)>>>>
    ELSE <<<<i, i, i, i>>, <<1, 2, 3, 4>>>>

\* the rows of the levels 1..3 of the four predictions
DetectRows(self) ==
    [cls_scores |-> [i \in 1..3 |-> ClsRows(i)],
     bbox_preds |-> [i \in 1..3 |-> BboxRows(i)],
     centernesses |-> [i \in 1..3 |-> CtrRows(i)],
     mask_preds |-> [i \in 1..3 |-> MaskRows(self, i)]]

\* a prediction list of n levels for a batch of num_imgs images
PredList(rows, n, num_imgs) ==
    [i \in 1..n |-> [size |-> DetectSize, imgs |-> [img \in 1..num_imgs |-> rows[i]]]]

\* the lists of one image
LevelList(rows, n) == [i \in 1..n |-> [size |-> DetectSize, rows |-> rows[i]]]

\* the numbers of levels of cls_scores, bbox_preds, centernesses, mask_preds
DetectLevelCounts ==
    {<<2, 2, 2, 2>>, <<2, 3, 2, 2>>, <<2, 2, 1, 2>>, <<2, 2, 3, 2>>,
     <<2, 2, 2, 1>>, <<2, 2, 2, 3>>, <<1, 1, 2, 2>>, <<0, 0, 0, 0>>}

\* the numbers of levels of cls_scores, bbox_preds, mask_preds, centernesses
\* and mlvl_points handed to get_bboxes_single
SingleLevelCounts ==
    {<<2, 2, 2, 2, 2>>, <<2, 1, 2, 2, 2>>, <<2, 2, 1, 2, 2>>, <<2, 2, 2, 1, 2>>,
     <<2, 2, 3, 2, 2>>, <<2, 2, 2, 2, 1>>, <<2, 2, 0, 2, 2>>}

RescaleValues == {None, <<FALSE>>, <<TRUE>>}

ScaleFactors == {<<1>>, <<2>>, <<2, 1, 2, 1>>}

DetectCfgs == {[score_thr |-> 50], [score_thr |-> 50, nms_pre |-> 1]}

InitDetect ==
    /\ \E a \in DetectHeads : head = FourierNetHead_init(a).val
    /\ \E rescale \in RescaleValues, scale_factor \in ScaleFactors, cfg \in DetectCfgs :
          \/ \E n \in DetectLevelCounts, num_imgs \in 0..2, off \in BOOLEAN :
                call = [fn |-> "get_bboxes",
                        cls_scores |-> PredList(DetectRows(head).cls_scores, n[1], num_imgs),
                        bbox_preds |->
                            [i \in 1..n[2] |->
                               [size |-> IF off /\ i = 2 THEN <<2, 1>> ELSE DetectSize,
                                imgs |-> [img \in 1..num_imgs |-> BboxRows(i)]]],
                        centernesses |-> PredList(DetectRows(head).centernesses, n[3], num_imgs),
                        mask_preds |->
                            PredList(DetectRows(head).mask_preds, n[4], num_imgs),
                        img_metas |-> [img \in 1..num_imgs |->
                                         [img_shape |-> <<8, 8>>,
                                          scale_factor |-> scale_factor]],
                        cfg |-> cfg,
                        rescale |-> rescale]
          \/ \E n \in SingleLevelCounts :
                call = [fn |-> "get_bboxes_single",
                        cls_scores |-> LevelList(DetectRows(head).cls_scores, n[1]),
                        bbox_preds |-> LevelList(DetectRows(head).bbox_preds, n[2]),
                        mask_preds |-> LevelList(DetectRows(head).mask_preds, n[3]),
                        centernesses |-> LevelList(DetectRows(head).centernesses, n[4]),
                        mlvl_points |->
                            SubSeq(get_points(head, <<DetectSize, DetectSize>>).val,
                                   1, n[5]),
                        img_shape |-> <<8, 8>>,
                        scale_factor |-> scale_factor,
                        cfg |-> cfg,
                        rescale |-> rescale]
    /\ locals = NoLocals
    /\ ret = NoRet
    /\ pc = "ready"

GetBboxes ==
    /\ pc = "ready"
    /\ call.fn = "get_bboxes"
    /\ \E r \in {get_bboxes(head, call.cls_scores, call.bbox_preds, call.centernesses,
                            call.mask_preds, call.img_metas, call.cfg, call.rescale)} :
           ret' = r
    /\ pc' = "done"
    /\ UNCHANGED <<head, call, locals>>

GetBboxesSingle ==
    /\ pc = "ready"
    /\ call.fn = "get_bboxes_single"
    /\ \E r \in {get_bboxes_single(head, call.cls_scores, call.bbox_preds,
                                   call.mask_preds, call.centernesses,
                                   call.mlvl_points, call.img_shape,
                                   call.scale_factor, call.cfg, call.rescale)} :
           ret' = r
    /\ pc' = "done"
    /\ UNCHANGED <<head, call, locals>>

NextDetect ==
    \/ GetBboxes
    \/ GetBboxesSingle

SpecDetect == InitDetect /\ [][NextDetect]_vars

(***************************************************************************)
(* Target assignment, as seen from outside: the results of                 *)
(* polar_target_single for the images of the batch, against the tests of   *)
(* the assignment written out from the boxes, the mask centres and the     *)
(* regression ranges of the call.                                          *)
(***************************************************************************)
\* polar_target_single has returned for every image of the batch
AssignReturned == "results" \in DOMAIN locals

AssignPoints == Concat(locals.all_level_points)

\* the pyramid level of point p
AssignLevel(p) == LevelOfRow(head.num_points_per_level, p, 1, 0)

\* the label and the box-regression target of point p of image img
LabelAt(img, p) == locals.results[img][1][p]
BoxTargetAt(img, p) == locals.results[img][2][p]

\* point p lies strictly inside the box of instance g: left, top, right and
\* bottom are all positive
ContainedInBox(img, p, g) ==
    LET pt == AssignPoints[p]
        b == call.gt_bboxes[img][g]
    IN  pt[1] > b[1] /\ pt[2] > b[2] /\ pt[1] < b[3] /\ pt[2] < b[4]

\* point p lies strictly inside the box of instance g intersected with the
\* square of half-width stride * radius around the instance's mask centre
\* (all coordinates multiplied by the denominator of radius)
ContainedInShrunkenBox(img, p, g) ==
    LET pt == AssignPoints[p]
        b == call.gt_bboxes[img][g]
        cy == call.gt_centers[img][g][1]
        cx == call.gt_centers[img][g][2]
        rd == head.radius[2]
        half == head.strides[AssignLevel(p)] * head.radius[1]
    IN  /\ ContainedInBox(img, p, g)
        /\ pt[1] * rd > cx * rd - half /\ pt[1] * rd < cx * rd + half
        /\ pt[2] * rd > cy * rd - half /\ pt[2] * rd < cy * rd + half

\* the inclusion test of the configuration of the head
PassesInclusion(img, p, g) ==
    IF head.center_sample THEN ContainedInShrunkenBox(img, p, g)
    ELSE ContainedInBox(img, p, g)

\* max(left, top, right, bottom) lies in the (min, max) range of p's level
PassesRange(img, p, g) ==
    LET pt == AssignPoints[p]
        b == call.gt_bboxes[img][g]
        far == MaxOf({pt[1] - b[1], pt[2] - b[2], b[3] - pt[1], b[4] - pt[2]})
        rr == head.regress_ranges[AssignLevel(p)]
    IN  rr[1] <= far /\ far <= rr[2]

Passing(img, p) ==
    {g \in DOMAIN call.gt_labels[img] :
        PassesInclusion(img, p, g) /\ PassesRange(img, p, g)}

\* point p of image img carries the label and the box target of instance g
AssignedTo(img, p, g) ==
    /\ LabelAt(img, p) = call.gt_labels[img][g]
    /\ BoxTargetAt(img, p) = BoxDistances(AssignPoints[p], call.gt_bboxes[img][g])

(***************************************************************************)
(* C1.  Soundness of the labels.                                           *)
(***************************************************************************)
\* C1: a point with a non-background label carries the label and the box
\* target of an instance that passes, at the point, the inclusion test and
\* the regression-range test; a point for which no instance passes both
\* tests has label 0
C1_PositiveOnlyIfBothTestsPass ==
    AssignReturned =>
        \A img \in DOMAIN locals.results : \A p \in DOMAIN AssignPoints :
            /\ LabelAt(img, p) # 0 =>
                  \E g \in Passing(img, p) : AssignedTo(img, p, g)
            /\ Passing(img, p) = {} => LabelAt(img, p) = 0

\* a positive point, and in the same image a point inside an instance's box
\* and outside the regression range of its level, left as background
C1_Witness ==
    /\ AssignReturned
    /\ pc = "done"
    /\ \E img \in DOMAIN locals.results :
          /\ \E p \in DOMAIN AssignPoints : LabelAt(img, p) # 0
          /\ \E p \in DOMAIN AssignPoints :
                /\ LabelAt(img, p) = 0
                /\ \E g \in DOMAIN call.gt_labels[img] :
                      PassesInclusion(img, p, g) /\ ~PassesRange(img, p, g)

FirstSmallest(img, S) ==
    CHOOSE g \in S :
        \A k \in S :
            \/ BoxArea(call.gt_bboxes[img][g]) < BoxArea(call.gt_bboxes[img][k])
            \/ /\ BoxArea(call.gt_bboxes[img][g]) = BoxArea(call.gt_bboxes[img][k])
               /\ g <= k

\* C3: a point at which one or more instances pass both tests carries the
\* label and the box target of the passing instance of minimum box area, the
\* first in input order among those of equal minimum area
C3_MinAreaFirstInOrder ==
    AssignReturned =>
        \A img \in DOMAIN locals.results : \A p \in DOMAIN AssignPoints :
            Passing(img, p) # {} =>
                AssignedTo(img, p, FirstSmallest(img, Passing(img, p)))

(***************************************************************************)
(* C4.  An image without ground-truth instances.                           *)
(***************************************************************************)
\* C4: when an image of the batch has no instance, loss completes without an
\* error, and every point of that image has label 0, a zero box target, a
\* zero mask target and a zero centerness target; a batch of such images
\* alone has no positive point
C4_NoInstancesAllBackground ==
    (pc = "done" /\ \E img \in DOMAIN call.gt_labels : call.gt_labels[img] = <<>>)
    => /\ ret.ok
       /\ \A img \in DOMAIN call.gt_labels : call.gt_labels[img] = <<>> =>
             \A l \in DOMAIN locals.labels :
                LET n == Len(locals.all_level_points[l])
                IN  \A k \in ((img - 1) * n + 1)..(img * n) :
                       /\ locals.labels[l][k] = 0
                       /\ locals.bbox_targets[l][k] = <<0, 0, 0, 0>>
                       /\ Range(locals.mask_targets[l][k]) = {Zero}
                       /\ locals.centerness_targets[l][k] = ZeroFrac
       /\ (\A img \in DOMAIN call.gt_labels : call.gt_labels[img] = <<>>)
             => ret.val.num_pos = 0


(***************************************************************************)
(* C8.  The vertices of distance2mask for raw distances.                   *)
(***************************************************************************)
DecodeReturned == pc = "done" /\ call.fn = "distance2mask" /\ ret.ok

\* the x and the y coordinates returned for the point of the call
ResX == ret.val.res[1][1]
ResY == ret.val.res[1][2]

\* C8: for a raw signal d of N = contour_points entries distance2mask returns
\* N vertices for the point, and without clamping vertex k (from 0) is
\* (d_k * sin(k*360/N) + point.x, d_k * cos(k*360/N) + point.y)
C8_RawVerticesAtUniformAngles ==
    (DecodeReturned /\ ~head.use_fourier) =>
        LET N == head.contour_points
            d == call.distances[1]
            pt == call.points[1]
        IN  /\ Len(d) = N
            /\ Len(ResX) = N
            /\ Len(ResY) = N
            /\ (call.max_shape = None /\ call.bbox = None) =>
                  /\ 360 % N = 0
                  /\ \A k \in 0..(N - 1) :
                        /\ ResX[k + 1] = d[k + 1] * Sin((k * 360) \div N) + pt[1] * TrigScale
                        /\ ResY[k + 1] = d[k + 1] * Cos((k * 360) \div N) + pt[2] * TrigScale

\* the constant signal 3 with N = 4 around (10, 10), not clamped: the
\* vertices (10, 13), (13, 10), (10, 7), (7, 10), in that order
C8_Witness ==
    /\ DecodeReturned
    /\ ~head.use_fourier
    /\ head.contour_points = 4
    /\ call.points = <<<<10, 10>>>>
    /\ call.distances = <<<<3, 3, 3, 3>>>>
    /\ call.max_shape = None
    /\ call.bbox = None
    /\ ResX = <<10000, 13000, 10000, 7000>>
    /\ ResY = <<13000, 10000, 7000, 10000>>

(***************************************************************************)
(* C9.  Clamping of the vertices.                                          *)
(***************************************************************************)
\* every returned vertex lies in the image of the call's max_shape
VerticesInImage ==
    /\ \A k \in DOMAIN ResX :
          0 <= ResX[k] /\ ResX[k] <= (call.max_shape[2] - 1) * TrigScale
    /\ \A k \in DOMAIN ResY :
          0 <= ResY[k] /\ ResY[k] <= (call.max_shape[1] - 1) * TrigScale

\* every returned vertex lies in the box of the call
VerticesInBox ==
    LET b == call.bbox[1]
    IN  /\ \A k \in DOMAIN ResX :
              b[1] * TrigScale <= ResX[k] /\ ResX[k] <= b[3] * TrigScale
        /\ \A k \in DOMAIN ResY :
              b[2] * TrigScale <= ResY[k] /\ ResY[k] <= b[4] * TrigScale

\* C9 as stated: with an image shape every vertex lies in the image, and
\* with a box as well every vertex also lies in the box, for every distance,
\* point and box
C9_VerticesInImageAndBox ==
    (DecodeReturned /\ call.max_shape # None) =>
        /\ VerticesInImage
        /\ call.bbox # None => VerticesInBox

\* the box of the call has x0 <= x1 and y0 <= y1
BoxOrdered ==
    call.bbox[1][1] <= call.bbox[1][3] /\ call.bbox[1][2] <= call.bbox[1][4]

\* the box of the call and the image of the call have a pixel in common
BoxMeetsImage ==
    /\ call.bbox[1][1] <= call.max_shape[2] - 1
    /\ call.bbox[1][3] >= 0
    /\ call.bbox[1][2] <= call.max_shape[1] - 1
    /\ call.bbox[1][4] >= 0

\* C9 amended: with an image shape and no box every vertex lies in the
\* image; with a box of x0 <= x1 and y0 <= y1 every vertex lies in the box
\* (the box is applied last), and it lies in the image as well when that box
\* and the image have a pixel in common
C9_VerticesInImageOrOrderedBox ==
    (DecodeReturned /\ call.max_shape # None) =>
        /\ call.bbox = None => VerticesInImage
        /\ (call.bbox # None /\ BoxOrdered) => VerticesInBox
        /\ (call.bbox # None /\ BoxOrdered /\ BoxMeetsImage) => VerticesInImage

\* a vertex that left the image is held at its border, and with the box
\* (2, 2, 6, 6) at the box's border
C9_Witness ==
    /\ DecodeReturned
    /\ ~head.use_fourier
    /\ head.contour_points = 4
    /\ call.points = <<<<10, 10>>>>
    /\ call.distances = <<<<16, 17, 18, 19>>>>
    /\ call.max_shape = <<8, 12>>
    /\ call.bbox = <<<<2, 2, 6, 6>>>>
    /\ ResX = <<6000, 6000, 6000, 2000>>
    /\ ResY = <<6000, 6000, 2000, 6000>>

(***************************************************************************)
(* C10.  Coefficient counts the signal does not support.                   *)
(***************************************************************************)
\* a Fourier head's num_coe and visulize_coe are at most contour_points / 2 + 1
CoefficientsSupported ==
    head.use_fourier =>
        /\ head.num_coe <= (head.contour_points \div 2) + 1
        /\ head.visulize_coe <= (head.contour_points \div 2) + 1

\* C10: a head whose configuration asks for more coefficients than
\* contour_points / 2 + 1 is never constructed, so that no decode call of a
\* constructed head fails, or passes, with such a configuration
C10_UnsupportedCoefficientsRejected ==
    /\ head # NoHead => CoefficientsSupported
    /\ (call.fn = "distance2mask" /\ ~ret.ok) => CoefficientsSupported

(***************************************************************************)
(* C7.  get_points_single returns h*w points row by row, and get_points    *)
(* one such list per level in level order.                                 *)
(***************************************************************************)
PointsReturned == pc = "done" /\ call.fn = "get_points" /\ ret.ok

\* the grid of level l, with the centre offset of a cell given doubled
\* (off2 = twice the offset added to j*s and i*s)
GridIs(l, off2) ==
    LET h == call.featmap_sizes[l][1]
        w == call.featmap_sizes[l][2]
        s == head.strides[l]
    IN  /\ Len(ret.val[l]) = h * w
        /\ \A i \in 0..(h - 1) : \A j \in 0..(w - 1) :
              /\ 2 * ret.val[l][i * w + j + 1][1] = 2 * j * s + off2
              /\ 2 * ret.val[l][i * w + j + 1][2] = 2 * i * s + off2

\* C7 as stated: the point of row i and column j is (j*s + s/2, i*s + s/2),
\* s/2 being half the stride
C7_PointsAtHalfStride ==
    PointsReturned =>
        /\ Len(ret.val) = Len(call.featmap_sizes)
        /\ \A l \in 1..Len(ret.val) : GridIs(l, head.strides[l])

\* C7 amended: the point of row i and column j (index i*w + j) is
\* (j*s + s div 2, i*s + s div 2), the offset being the floor of s/2; there
\* are exactly h*w points per level, row by row, one list per level in order
C7_PointsRowMajorFloor ==
    PointsReturned =>
        /\ Len(ret.val) = Len(call.featmap_sizes)
        /\ \A l \in 1..Len(ret.val) : GridIs(l, 2 * (head.strides[l] \div 2))

\* two levels, a 2x2 grid at an odd stride first
C7_Witness ==
    /\ PointsReturned
    /\ Len(ret.val) = 2
    /\ call.featmap_sizes[1] = <<2, 2>>
    /\ head.strides[1] = 3
    /\ ret.val[1][2] = <<4, 1>>
    /\ Len(ret.val[2]) = 2

(***************************************************************************)
(* C5.  The distance of every bin of get_polar_coordinates.                *)
(***************************************************************************)
PolarReturned == pc = "done" /\ call.fn = "get_polar_coordinates" /\ ret.ok

\* the truncated angle and the distance of every contour point of the call
CallAngles ==
    [k \in DOMAIN call.pos_mask_contour |->
        Angle(call.pos_mask_contour[k][1] - call.c_x,
              call.pos_mask_contour[k][2] - call.c_y)]

CallDists ==
    [k \in DOMAIN call.pos_mask_contour |->
        Dist(call.pos_mask_contour[k][1] - call.c_x,
             call.pos_mask_contour[k][2] - call.c_y)]

\* the contour points of the call whose truncated angle is a
PointsAtAngle(a) == {k \in DOMAIN CallAngles : CallAngles[k] = a}

\* the seven angles of the claim, in its order
C5_Order == <<0, 1, -1, 2, -2, 3, -3>>

C6_EntriesAtLeastEps ==
    PolarReturned =>
        \A b \in 1..call.n : DLeq(EPS, ret.val.distances[b])

(***************************************************************************)
(* The level counts of the prediction lists.                               *)
(***************************************************************************)
\* the numbers of levels of the class scores, box predictions, centernesses
\* and mask predictions of the call
PredictionLevels ==
    IF call.fn = "loss"
    THEN {call.num_levels.cls_scores, call.num_levels.bbox_preds,
          call.num_levels.centernesses, call.num_levels.mask_preds}
    ELSE {Len(call.cls_scores), Len(call.bbox_preds),
          Len(call.centernesses), Len(call.mask_preds)}

\* C11: when two of the prediction lists of a call of loss, get_bboxes or
\* get_bboxes_single differ in their number of levels, the call fails: it
\* never returns a result.
C11_LevelMismatchIsFatal ==
    (pc = "done" /\ Cardinality(PredictionLevels) > 1) => ~ret.ok

(***************************************************************************)
(* The detections of get_bboxes.                                           *)
(***************************************************************************)
\* the prediction lists of the call have one level per stride of the head,
\* and feature maps of one size per level
DetectWellFormed ==
    /\ PredictionLevels = {Len(head.strides)}
    /\ \A i \in DOMAIN call.cls_scores : call.bbox_preds[i].size = call.cls_scores[i].size

\* the boxes and masks handed to NMS for result r are the decoded ones
\* divided by the factors fx (x coordinates) and fy (y coordinates)
HandedToNmsDividedBy(r, fx, fy) ==
    LET nms == r.multiclass_nms_with_mask
        F(c) == IF c \in {1, 3} THEN fx ELSE fy
    IN  /\ \A p \in DOMAIN r.mlvl_masks : \A k \in DOMAIN r.mlvl_masks[p][1] :
              /\ nms.masks[p][1][k] * fx = r.mlvl_masks[p][1][k]
              /\ nms.masks[p][2][k] * fy = r.mlvl_masks[p][2][k]
        /\ ~head.mask_nms =>
              \A p \in DOMAIN r.mlvl_bboxes : \A c \in 1..4 :
                  nms.bboxes[p][c] * F(c) = r.mlvl_bboxes[p][c]

\* C12: get_bboxes returns one result for every image of img_metas, whatever
\* the rescale argument is (None by default, false or true): the boxes and
\* masks handed to NMS are the decoded ones, divided by the scale factor when
\* rescale is true and unchanged otherwise.
C12_GetBboxesReturnsForEveryRescale ==
    (pc = "done" /\ call.fn = "get_bboxes" /\ DetectWellFormed) =>
        /\ ret.ok
        /\ Len(ret.val) = Len(call.img_metas)
        /\ \A img \in DOMAIN call.img_metas :
              LET sf == call.img_metas[img].scale_factor
              IN  IF Truthy(call.rescale)
                  THEN HandedToNmsDividedBy(ret.val[img], BoxFactor(sf, 1), BoxFactor(sf, 2))
                  ELSE HandedToNmsDividedBy(ret.val[img], 1, 1)

(***************************************************************************)
(* The centerness score.  A carried value stands for sq + eps * e with e   *)
(* the square of the 1e-6 of an unmatched bin; products are polynomials    *)
(* in e.                                                                   *)
(***************************************************************************)
DTimes(a, b) == <<a.sq * b.sq, a.sq * b.eps + a.eps * b.sq, a.eps * b.eps>>

\* the fractions f and g are the same number
FracEq(f, g) == DTimes(f.num, g.den) = DTimes(g.num, f.den)

CenternessReturned == pc = "done" /\ call.fn = "polar_centerness_target"

\* the smallest and the largest entry of the signal of the call
SignalMin ==
    CHOOSE lo \in Range(call.pos_mask_targets) :
        \A d \in Range(call.pos_mask_targets) : DLeq(lo, d)

SignalMax ==
    CHOOSE hi \in Range(call.pos_mask_targets) :
        \A d \in Range(call.pos_mask_targets) : DLeq(d, hi)

SignalPositive == \A d \in Range(call.pos_mask_targets) : d # Zero

\* the fourth power of sqrt(min / max) / (p / q), clamped to at most 1: a
\* quotient by zero is infinite, and clamped
ClampedScore(p, q) ==
    LET num == DScale(SignalMin, q * q * q * q)
        den == DScale(SignalMax, p * p * p * p)
    IN  IF ~DLeq(num, den) THEN Frac(One, One) ELSE Frac(num, den)

\* the statements about the signals without a normalizer, and the range of
\* the score
ScoreExamples ==
    /\ (call.max_centerness = Unset /\ SignalMin = SignalMax) =>
           ret.val.num = ret.val.den
    /\ (call.max_centerness = Unset /\ SignalMin = Dist(1, 0) /\ SignalMax = Dist(4, 0)) =>
           DScale(ret.val.num, 16) = ret.val.den
    /\ ret.val.num # Zero /\ DLeq(ret.val.num, ret.val.den)

\* C13 (as stated): the score of a strictly positive signal is
\* sqrt(min / max), divided by the normalizer whenever one is supplied, and
\* clamped to at most 1.0; without a normalizer a uniform signal scores 1.0
\* and a signal of minimum 1 and maximum 4 scores 0.5; the score is in (0, 1].
C13_ScoreDividedByAnySuppliedNormalizer ==
    (CenternessReturned /\ SignalPositive) =>
        /\ ret.ok
        /\ FracEq(ret.val, IF call.max_centerness = Unset THEN ClampedScore(1, 1)
                            ELSE ClampedScore(call.max_centerness[1],
                                              call.max_centerness[2]))
        /\ ScoreExamples

\* C13 (amended): the same, the score being divided by the normalizer only
\* when one is supplied and is not zero; a normalizer of zero is ignored.
C13_ScoreDividedByNonZeroNormalizer ==
    (CenternessReturned /\ SignalPositive) =>
        /\ ret.ok
        /\ FracEq(ret.val, IF call.max_centerness = Unset \/ call.max_centerness[1] = 0
                            THEN ClampedScore(1, 1)
                            ELSE ClampedScore(call.max_centerness[1],
                                              call.max_centerness[2]))
        /\ ScoreExamples

\* a signal of minimum 1 and maximum 4 scored with the normalizer 1/2: the
\* quotient 0.5 / 0.5 is 1.0
C13_Witness ==
    /\ CenternessReturned
    /\ SignalPositive
    /\ SignalMin = Dist(1, 0)
    /\ SignalMax = Dist(4, 0)
    /\ call.max_centerness # Unset
    /\ call.max_centerness[1] = 1
    /\ call.max_centerness[2] = 2
    /\ ret.val.num = ret.val.den

(***************************************************************************)
(* Center sampling.                                                        *)
(***************************************************************************)
\* C14: with center sampling enabled, in both centre modes and for every
\* instance centre, polar_target_single computes its inclusion mask, and the
\* mask holds for a point and an instance exactly when the point lies
\* strictly inside the instance's box intersected with the square of
\* half-width stride * radius around the instance's centre.
C14_CenterSamplingTestsShrunkenBox ==
    (head.center_sample /\ call.fn = "loss" /\ Cardinality(PredictionLevels) = 1
        /\ pc \notin {"ready", "polar_target"}) =>
        /\ ret # Raise("AttributeError")
        /\ "inside_gt_bbox_mask" \in DOMAIN locals =>
              \A img \in DOMAIN call.gt_bboxes : \A g \in DOMAIN call.gt_bboxes[img] :
                  \A p \in DOMAIN AssignPoints :
                      locals.inside_gt_bbox_mask[img][p][g]
                          <=> ContainedInShrunkenBox(img, p, g)

(***************************************************************************)
(* The mask targets.                                                       *)
(***************************************************************************)
MaskTargetAt(img, p) == locals.results[img][3][p]

\* the polar sampling of the contour of instance g around point p
SamplingAround(img, p, g) ==
    get_polar_coordinates(AssignPoints[p][1], AssignPoints[p][2],
                          call.gt_masks[img][g], head.contour_points).val.distances

\* the mask targets of the images with instances: the target of a positive
\* point is the sampling of its instance around the point, or with
\* transformed its spectrum truncated to num_coe coefficients; the target of
\* a background point is all zero
MaskTargetsEmittedAs(transformed) ==
    LET Emitted(d) == IF transformed THEN Rfft(d, head.num_coe) ELSE d
    IN
    \A img \in DOMAIN call.gt_labels : call.gt_labels[img] # <<>> =>
        \A p \in DOMAIN AssignPoints :
            IF LabelAt(img, p) = 0
            THEN MaskTargetAt(img, p) = [k \in 1..head.contour_points |-> Zero]
            ELSE \E g \in DOMAIN call.gt_labels[img] :
                    /\ AssignedTo(img, p, g)
                    /\ Len(MaskTargetAt(img, p)) = Len(Emitted(SamplingAround(img, p, g)))
                    /\ MaskTargetAt(img, p) = Emitted(SamplingAround(img, p, g))

\* C15 (as stated): the mask target polar_target_single emits for a positive
\* point is the polar sampling of its instance around the point, and on a
\* head with use_fourier the spectrum of that sampling truncated to num_coe
\* coefficients; the target of a background point is all zero.
C15_FourierHeadEmitsSpectrum ==
    AssignReturned =>
        MaskTargetsEmittedAs(head.use_fourier)

\* C15 (amended): the mask target polar_target_single emits for a positive
\* point is the polar sampling of its instance around the point, whatever
\* use_fourier is; the target of a background point is all zero.  loss takes
\* the spectrum of the targets of the positive points, truncated to num_coe
\* coefficients, exactly when loss_on_coe is set.
C15_SamplingEmittedSpectrumInLoss ==
    /\ AssignReturned => MaskTargetsEmittedAs(FALSE)
    /\ (pc = "done" /\ call.fn = "loss" /\ ret.ok /\ ret.val.num_pos > 0) =>
          LET pos_inds == NonZero(ret.val.flatten_labels, 1)
          IN  \A k \in DOMAIN pos_inds :
                  LET target == ret.val.flatten_mask_targets[pos_inds[k]]
                      handed == ret.val.loss_mask.target[k]
                  IN  IF head.loss_on_coe
                      THEN /\ Len(handed) = head.num_coe
                           /\ \A b \in DOMAIN handed :
                                  handed[b] = [bin |-> b - 1, of |-> target]
                      ELSE handed = target

\* a Fourier head whose loss is taken on the coefficients has finished loss
\* with a positive point whose sampling is not uniform
C15_Witness ==
    /\ pc = "done"
    /\ call.fn = "loss"
    /\ head.use_fourier
    /\ head.loss_on_coe
    /\ ret.ok
    /\ ret.val.num_pos > 0
    /\ \E k \in DOMAIN ret.val.loss_mask.target :
          /\ Len(ret.val.loss_mask.target[k]) = head.num_coe
          /\ Cardinality(Range(ret.val.loss_mask.target[k][1].of)) > 1

(***************************************************************************)
(* The spectrum handed to the inverse transform.                           *)
(***************************************************************************)
\* distance2mask was called on a Fourier head with
\* visulize_coe <= num_coe <= contour_points / 2 + 1
FourierDecodeCalled ==
    /\ pc = "done"
    /\ call.fn = "distance2mask"
    /\ head.use_fourier
    /\ head.visulize_coe <= head.num_coe
    /\ head.num_coe <= (head.contour_points \div 2) + 1

\* C16: on a Fourier head with V = visulize_coe <= K = num_coe <= N / 2 + 1
\* the sequence handed to the inverse transform is the K predicted
\* coefficients (in training mode) or the first V of them (at inference)
\* followed by zeros, N = contour_points bins in all; the call returns when
\* N divides 360, and whenever it returns the reconstructed signal has N
\* entries and the polygon N vertices.
C16_SpectrumIsCoefficientsThenZeros ==
    FourierDecodeCalled =>
        /\ locals.spectrum.ok
        /\ LET bins == locals.spectrum.val[1]
               retained == IF call.train THEN head.num_coe ELSE head.visulize_coe
           IN  /\ Len(bins) = head.contour_points
               /\ \A k \in DOMAIN bins :
                      bins[k] = IF k <= retained THEN call.distances[1][k]
                                ELSE <<0, 0>>
        /\ 360 % head.contour_points = 0 => ret.ok
        /\ ret.ok =>
              /\ Len(ret.val.distances[1]) = head.contour_points
              /\ Len(ret.val.res[1][1]) = head.contour_points
              /\ Len(ret.val.res[1][2]) = head.contour_points

\* an inference call that drops predicted coefficients: V < K
C16_Witness ==
    /\ FourierDecodeCalled
    /\ ~call.train
    /\ head.visulize_coe < head.num_coe
    /\ head.contour_points = 4
    /\ ret.ok

(***************************************************************************)
(* The normalizers of the losses.                                          *)
(***************************************************************************)
\* polar_target_single has returned for every image, with no positive point
NoPositives ==
    /\ AssignReturned
    /\ \A img \in DOMAIN locals.results : \A p \in DOMAIN AssignPoints :
          LabelAt(img, p) = 0

\* the sum of the centerness targets t, none of which is negative, is
\* strictly positive
SumPositive(t) == \E k \in DOMAIN t : t[k].num # Zero

\* C17: a call of loss on a batch without positive points returns, with a
\* classification loss averaged by a strictly positive count and zero bbox,
\* mask and centerness losses; a call on a batch with positive points has its
\* bbox and mask losses normalized by the sum of the centerness targets of
\* the positive points, which is strictly positive.
C17_LossNormalizersPositive ==
    (pc = "done" /\ call.fn = "loss") =>
        /\ NoPositives =>
              /\ ret.ok
              /\ ret.val.loss_cls.avg_factor > 0
              /\ ret.val.loss_bbox = 0
              /\ ret.val.loss_mask = 0
              /\ ret.val.loss_centerness = 0
        /\ (ret.ok /\ ret.val.num_pos > 0) =>
              /\ ret.val.loss_cls.avg_factor > 0
              /\ "avg_factor" \in DOMAIN ret.val.loss_bbox
              /\ SumPositive(ret.val.loss_bbox.avg_factor.sum)
              /\ "avg_factor" \in DOMAIN ret.val.loss_mask
              /\ SumPositive(ret.val.loss_mask.avg_factor.sum)

(***************************************************************************)
(* Assignment as a function of its inputs.                                 *)
(***************************************************************************)
\* what polar_target returns for the points and the ground truth of call t
\* when no other call touches the head: the head holds the point counts of
\* the call's own levels
AssignmentAlone(t) ==
    polar_target([head EXCEPT !.num_points_per_level =
                     [i \in DOMAIN call[t].points |-> Len(call[t].points[i])]],
                 call[t].points, call[t].gt_labels, call[t].gt_bboxes,
                 call[t].gt_masks, call[t].gt_centers, call[t].gt_max_centerness)

\* ret values a and b are the same outcome
SameOutcome(a, b) ==
    /\ a.ok = b.ok
    /\ a.ok => a.val = b.val
    /\ ~a.ok => a.error = b.error

\* C18: whatever the other call on the head does before or between the
\* steps of a call, the call's polar_target returns what it returns for the
\* same points and ground truth on its own.
C18_AssignmentIndependentOfOtherCalls ==
    \A t \in {1, 2} : pc[t] = "done" => SameOutcome(ret[t], AssignmentAlone(t))
====
